---------------------------- MODULE Spec2Model ----------------------------
(***************************************************************************)
(* A model of the DHCPv6 wire codec of skoef/dhcpv6: the option codec      *)
(* (option.go), the DUID codec and the message envelope.                   *)
(*                                                                         *)
(* Representation:                                                         *)
(*   - a byte is an integer in 0..255, a Go string or []byte value is a    *)
(*     sequence of bytes;                                                  *)
(*   - a Go slice that is being decoded is a record [arr, len]: arr holds  *)
(*     the bytes of the backing array from the slice's first element up to *)
(*     its capacity, len is the slice's length.  An index expression is    *)
(*     checked against len, a slice expression against the capacity, as Go *)
(*     does;                                                               *)
(*   - a uint16 is an integer in 0..65535 and its arithmetic wraps;        *)
(*   - a uint32 is a pair <<hi, lo>> of 16-bit limbs (hi * 65536 + lo);    *)
(*   - a time.Duration (int64 nanoseconds, non-negative here) is a tuple   *)
(*     of four 16-bit limbs, most significant first;                       *)
(*   - a time.Time is its Unix seconds as a uint32 pair;                   *)
(*   - a run-time panic and a loop that never ends are the outcomes        *)
(*     "panic" and "hang" of a call.                                       *)
(***************************************************************************)
EXTENDS Integers, Sequences, FiniteSets, TLC

\* ------------------------------------------------------------------------
\* Fixed-width integers
\* ------------------------------------------------------------------------

U16Mod == 65536

ByteMod == 256

\* uint16 addition, as Go's + on uint16 operands
Add16(a, b) == (a + b) % U16Mod

\* uint16(x) of a non-negative int x
ToUint16(x) == x % U16Mod

\* uint8(x) of a non-negative integer x: OptionType(...), DUIDType(...)
ToUint8(x) == x % ByteMod

\* binary.BigEndian.PutUint16
PutUint16(v) == <<v \div ByteMod, v % ByteMod>>

\* binary.BigEndian.PutUint32 of a uint32 <<hi, lo>>
PutUint32(v) == PutUint16(v[1]) \o PutUint16(v[2])

\* uint32 addition with wrap-around
Add32(a, b) ==
  LET lo == a[2] + b[2]
      hi == a[1] + b[1] + (lo \div U16Mod)
  IN  <<hi % U16Mod, lo % U16Mod>>

\* uint32 subtraction with wrap-around
Sub32(a, b) ==
  LET lo == a[2] - b[2]
      borrow == IF lo < 0 THEN 1 ELSE 0
      hi == a[1] - b[1] - borrow
  IN  <<hi % U16Mod, lo % U16Mod>>

\* time.Duration(x) of a uint32 x
DurationOfU32(u) == <<0, 0, u[1], u[2]>>

\* uint32(d) of a time.Duration d: the low 32 bits
U32OfDuration(d) == <<d[3], d[4]>>

\* d * k for a duration d and a small constant k, limb by limb (64-bit wrap)
RECURSIVE MulLimbs(_, _, _, _)
MulLimbs(d, k, i, carry) ==
  IF i = 0 THEN <<>>
  ELSE LET p == d[i] * k + carry
       IN  Append(MulLimbs(d, k, i - 1, p \div U16Mod), p % U16Mod)

DurationMul(d, k) == MulLimbs(d, k, 4, 0)

\* d / k for a non-negative duration d and a small constant k (long division)
RECURSIVE DivLimbs(_, _, _, _)
DivLimbs(d, k, i, rem) ==
  IF i > 4 THEN <<>>
  ELSE LET cur == rem * U16Mod + d[i]
       IN  <<cur \div k>> \o DivLimbs(d, k, i + 1, cur % k)

DurationDiv(d, k) == DivLimbs(d, k, 1, 0)

\* time.Millisecond = 1000 * 1000 nanoseconds; the factor is applied twice
Thousand == 1000

\* time.Duration(n) * time.Millisecond, without the factor 10
ElapsedOfWireMillis(n) ==
  DurationMul(DurationMul(<<0, 0, 0, n>>, Thousand), Thousand)

\* time.Duration(n) * time.Millisecond * 10 for a uint16 n
ElapsedOfWire(n) ==
  DurationMul(DurationMul(DurationMul(<<0, 0, 0, n>>, Thousand), Thousand), 10)

\* uint16(d / time.Millisecond / 10) for a duration d
WireOfElapsed(d) ==
  DurationDiv(DurationDiv(DurationDiv(d, Thousand), Thousand), 10)[4]

\* ------------------------------------------------------------------------
\* Go slices
\* ------------------------------------------------------------------------

\* []byte{...} or a freshly made slice: capacity = length
MkSlice(bytes) == [arr |-> bytes, len |-> Len(bytes)]

\* buf[:n] of a larger receive buffer: capacity beyond the length
MkSliceCap(bytes, spare) == [arr |-> bytes \o spare, len |-> Len(bytes)]

Cap(d) == Len(d.arr)

\* the elements of the slice
Bytes(d) == SubSeq(d.arr, 1, d.len)

\* whether data[lo:hi] is in range (0 <= lo <= hi <= cap)
CanSlice(d, lo, hi) == lo <= hi /\ hi <= Cap(d)

\* data[lo:hi]
SliceOf(d, lo, hi) == [arr |-> SubSeq(d.arr, lo + 1, Cap(d)), len |-> hi - lo]

\* whether data[i] is in range (i < len)
CanIndex(d, i) == i < d.len

\* data[i]
At(d, i) == d.arr[i + 1]

\* binary.BigEndian.Uint16(data[off:off+2])
Uint16At(d, off) == d.arr[off + 1] * ByteMod + d.arr[off + 2]

\* binary.BigEndian.Uint32(data[off:off+4])
Uint32At(d, off) == <<Uint16At(d, off), Uint16At(d, off + 2)>>

\* the bytes data[lo:hi] as a value (a string, a net.IP, a hardware address)
BytesAt(d, lo, hi) == SubSeq(d.arr, lo + 1, hi)

\* ------------------------------------------------------------------------
\* DUID codec
\* ------------------------------------------------------------------------

\* thirtyYearsInSeconds = uint32(946771200) = 14446 * 65536 + 38144
thirtyYearsInSeconds == <<14446, 38144>>

\* the nil DUID interface value
NilDUID == [kind |-> "nil"]

\* DUIDLLT.Len / DUIDLL.Len / DUIDUUID.Len
DUIDLen(d) ==
  CASE d.kind = "LLT"  -> ToUint16(8 + Len(d.LinkLayerAddress))
    [] d.kind = "LL"   -> ToUint16(4 + Len(d.LinkLayerAddress))
    [] d.kind = "UUID" -> 18

\* DUIDLLT.Marshal / DUIDLL.Marshal / DUIDUUID.Marshal
DUIDMarshal(d) ==
  CASE d.kind = "LLT"  ->
         PutUint16(1) \o PutUint16(d.HardwareType)
           \o PutUint32(Sub32(d.Time, thirtyYearsInSeconds))
           \o d.LinkLayerAddress
    [] d.kind = "LL"   ->
         PutUint16(3) \o PutUint16(d.HardwareType) \o d.LinkLayerAddress
    [] d.kind = "UUID" -> PutUint16(4) \o d.UUID

\* the length checks with <= for <: an identifier of exactly the minimum
\* length is refused
DUIDTooShortOffByOne(duidType, n) ==
  CASE duidType = 1 -> n <= 8
    [] duidType = 3 -> n <= 4
    [] duidType = 4 -> n # 18
    [] OTHER -> FALSE

\* the length checks of the cases of DecodeDUID, for an input of n bytes:
\* len(data) < 8 (LLT), len(data) < 4 (LL), len(data) != 18 (UUID)
DUIDTooShort(duidType, n) ==
  CASE duidType = 1 -> n < 8
    [] duidType = 3 -> n < 4
    [] duidType = 4 -> n # 18
    [] OTHER -> FALSE

\* DecodeDUID: [duid, err]
DecodeDUID(data) ==
  IF data.len < 2 THEN [duid |-> NilDUID, err |-> "duid too short"]
  ELSE
    LET duidType == ToUint8(Uint16At(data, 0))
    IN  CASE duidType = 1 ->
               IF DUIDTooShort(duidType, data.len)
                 THEN [duid |-> NilDUID, err |-> "duid too short"]
               ELSE [duid |-> [kind |-> "LLT",
                               HardwareType |-> Uint16At(data, 2),
                               Time |-> Add32(Uint32At(data, 4), thirtyYearsInSeconds),
                               LinkLayerAddress |->
                                 IF data.len > 8 THEN BytesAt(data, 8, data.len)
                                 ELSE <<>>],
                     err |-> "nil"]
          [] duidType = 3 ->
               IF DUIDTooShort(duidType, data.len)
                 THEN [duid |-> NilDUID, err |-> "duid too short"]
               ELSE [duid |-> [kind |-> "LL",
                               HardwareType |-> Uint16At(data, 2),
                               LinkLayerAddress |->
                                 IF data.len > 4 THEN BytesAt(data, 4, data.len)
                                 ELSE <<>>],
                     err |-> "nil"]
          [] duidType = 4 ->
               IF DUIDTooShort(duidType, data.len)
                 THEN [duid |-> NilDUID, err |-> "duid too short"]
               ELSE [duid |-> [kind |-> "UUID", UUID |-> BytesAt(data, 2, 18)],
                     err |-> "nil"]
          [] OTHER -> [duid |-> NilDUID, err |-> "unhandled DUIDType"]

\* ------------------------------------------------------------------------
\* Options: Type, Len, Marshal
\* ------------------------------------------------------------------------

OptionTypeClientID == 1
OptionTypeServerID == 2
OptionTypeIANA == 3
OptionTypeIAAddress == 5
OptionTypeOptionRequest == 6
OptionTypeElapsedTime == 8
OptionTypeStatusCode == 13
OptionTypeRapidCommit == 14
OptionTypeUserClass == 15
OptionTypeVendorClass == 16
OptionTypeBootFileURL == 59
OptionTypeBootFileParameters == 60
OptionTypeClientSystemArchitectureType == 61
OptionTypeClientNetworkInterfaceIdentifier == 62
OptionTypeNextHop == 242
OptionTypeRoutePrefix == 243

\* the type codes DecodeOptions has a case for
ImplementedTypes ==
  { OptionTypeClientID, OptionTypeServerID, OptionTypeIANA, OptionTypeIAAddress,
    OptionTypeOptionRequest, OptionTypeElapsedTime, OptionTypeStatusCode,
    OptionTypeRapidCommit, OptionTypeUserClass, OptionTypeVendorClass,
    OptionTypeBootFileURL, OptionTypeBootFileParameters,
    OptionTypeClientSystemArchitectureType,
    OptionTypeClientNetworkInterfaceIdentifier, OptionTypeNextHop,
    OptionTypeRoutePrefix }

RoutePreferenceMedium == 0
RoutePreferenceHigh == 1
RoutePreferenceLow == 3

\* o.Type() of each option struct
OptionTypeOf(o) ==
  CASE o.kind = "ClientID" -> OptionTypeClientID
    [] o.kind = "ServerID" -> OptionTypeServerID
    [] o.kind = "IANA" -> OptionTypeIANA
    [] o.kind = "IAAddress" -> OptionTypeIAAddress
    [] o.kind = "OptionRequest" -> OptionTypeOptionRequest
    [] o.kind = "ElapsedTime" -> OptionTypeElapsedTime
    [] o.kind = "StatusCode" -> OptionTypeStatusCode
    [] o.kind = "RapidCommit" -> OptionTypeRapidCommit
    [] o.kind = "UserClass" -> OptionTypeUserClass
    [] o.kind = "VendorClass" -> OptionTypeVendorClass
    [] o.kind = "BootFileURL" -> OptionTypeBootFileURL
    [] o.kind = "BootFileParameters" -> OptionTypeBootFileParameters
    [] o.kind = "ClientSystemArchitectureType" ->
         OptionTypeClientSystemArchitectureType
    [] o.kind = "ClientNetworkInterfaceIdentifier" ->
         OptionTypeClientNetworkInterfaceIdentifier
    [] o.kind = "NextHop" -> OptionTypeNextHop
    [] o.kind = "RoutePrefix" -> OptionTypeRoutePrefix

\* classDataContainer.classDataLen and the loop of OptionBootFileParameters.Len:
\* the int sum of len(s) + 2 over the strings
RECURSIVE StringsLen(_)
StringsLen(ss) ==
  IF ss = <<>> THEN 0 ELSE Len(Head(ss)) + 2 + StringsLen(Tail(ss))

\* classDataContainer.encodeClassData and the loop of
\* OptionBootFileParameters.Marshal
RECURSIVE encodeClassData(_)
encodeClassData(ss) ==
  IF ss = <<>> THEN <<>>
  ELSE PutUint16(ToUint16(Len(Head(ss)))) \o Head(ss) \o encodeClassData(Tail(ss))

RECURSIVE OptionLen(_)
RECURSIVE OptionsLen(_)
RECURSIVE OptionMarshal(_)
RECURSIVE OptionsMarshal(_)

\* Options.Len: l += opt.Len() + 4 on a uint16
OptionsLen(os) ==
  IF os = <<>> THEN 0
  ELSE Add16(OptionsLen(SubSeq(os, 1, Len(os) - 1)),
             Add16(OptionLen(os[Len(os)]), 4))

\* o.Len() of each option struct
OptionLen(o) ==
  CASE o.kind \in {"ClientID", "ServerID"} -> DUIDLen(o.DUID)
    [] o.kind = "IANA" -> Add16(12, OptionsLen(o.options))
    [] o.kind = "IAAddress" -> 24
    [] o.kind = "OptionRequest" -> ToUint16(Len(o.Options) * 2)
    [] o.kind = "ElapsedTime" -> 2
    [] o.kind = "StatusCode" -> ToUint16(2 + Len(o.Message))
    [] o.kind = "RapidCommit" -> 0
    [] o.kind = "UserClass" -> ToUint16(StringsLen(o.ClassData))
    [] o.kind = "VendorClass" -> Add16(ToUint16(StringsLen(o.ClassData)), 4)
    [] o.kind = "BootFileURL" -> ToUint16(Len(o.URL))
    [] o.kind = "BootFileParameters" -> ToUint16(StringsLen(o.Parameters))
    [] o.kind = "ClientSystemArchitectureType" -> ToUint16(2 * Len(o.Types))
    [] o.kind = "ClientNetworkInterfaceIdentifier" -> 3
    [] o.kind = "NextHop" -> Add16(16, OptionsLen(o.options))
    [] o.kind = "RoutePrefix" -> Add16(22, OptionsLen(o.options))

\* the uint16 codes of a list, two bytes each
RECURSIVE PutUint16s(_)
PutUint16s(vs) ==
  IF vs = <<>> THEN <<>> ELSE PutUint16(Head(vs)) \o PutUint16s(Tail(vs))

\* the byte OptionRoutePrefix.Marshal leaves in b[9]
PreferenceByte(p) ==
  CASE p = RoutePreferenceLow -> 24
    [] p = RoutePreferenceHigh -> 8
    [] OTHER -> 0

\* the type and length header every Marshal writes first
OptionHeader(o) == PutUint16(OptionTypeOf(o)) \o PutUint16(OptionLen(o))

\* the nested options a container option appends when it has any
NestedMarshal(o) ==
  IF Len(o.options) > 0 THEN OptionsMarshal(o.options) ELSE <<>>

\* o.Marshal() of each option struct
OptionMarshal(o) ==
  CASE o.kind \in {"ClientID", "ServerID"} ->
         OptionHeader(o) \o DUIDMarshal(o.DUID)
    [] o.kind = "IANA" ->
         OptionHeader(o) \o PutUint32(o.IAID)
           \o PutUint32(U32OfDuration(o.T1)) \o PutUint32(U32OfDuration(o.T2))
           \o NestedMarshal(o)
    [] o.kind = "IAAddress" ->
         OptionHeader(o) \o o.Address
           \o PutUint32(U32OfDuration(o.PreferredLifetime))
           \o PutUint32(U32OfDuration(o.ValidLifetime))
    [] o.kind = "OptionRequest" -> OptionHeader(o) \o PutUint16s(o.Options)
    [] o.kind = "ElapsedTime" ->
         OptionHeader(o) \o PutUint16(WireOfElapsed(o.ElapsedTime))
    [] o.kind = "StatusCode" ->
         OptionHeader(o) \o PutUint16(o.Code) \o o.Message
    [] o.kind = "RapidCommit" -> PutUint16(OptionTypeRapidCommit) \o <<0, 0>>
    [] o.kind = "UserClass" -> OptionHeader(o) \o encodeClassData(o.ClassData)
    [] o.kind = "VendorClass" ->
         OptionHeader(o) \o PutUint32(o.EnterpriseNumber)
           \o encodeClassData(o.ClassData)
    [] o.kind = "BootFileURL" -> OptionHeader(o) \o o.URL
    [] o.kind = "BootFileParameters" ->
         OptionHeader(o) \o encodeClassData(o.Parameters)
    [] o.kind = "ClientSystemArchitectureType" ->
         OptionHeader(o) \o PutUint16s(o.Types)
    [] o.kind = "ClientNetworkInterfaceIdentifier" ->
         OptionHeader(o) \o <<o.InterfaceType, o.RevisionMajor, o.RevisionMinor>>
    [] o.kind = "NextHop" -> OptionHeader(o) \o o.Address \o NestedMarshal(o)
    [] o.kind = "RoutePrefix" ->
         OptionHeader(o) \o PutUint32(o.RouteLifetime)
           \o <<o.PrefixLength, PreferenceByte(o.Preference)>>
           \o o.Prefix \o NestedMarshal(o)

\* Options.Marshal: the options' bytes in list order
OptionsMarshal(os) ==
  IF os = <<>> THEN <<>>
  ELSE OptionMarshal(Head(os)) \o OptionsMarshal(Tail(os))

\* ------------------------------------------------------------------------
\* DecodeOptions
\* ------------------------------------------------------------------------

\* currentOption == nil
NoOption == [kind |-> "none"]

\* the outcomes of a call that does not return: a run-time panic, an endless loop
Faults == {"panic", "hang"}

\* one decoded option, no error
Decoded(o) == [opt |-> o, err |-> "nil"]

\* "return list, err" inside the switch; a fault when err is one
Failed(e) == [opt |-> NoOption, err |-> e]

\* OptionOptionRequest.decodeOptions: the option types of the body
RECURSIVE decodeOptions(_)
decodeOptions(data) ==
  IF data.len < 2 THEN <<>>
  ELSE <<ToUint8(Uint16At(data, 0))>> \o decodeOptions(SliceOf(data, 2, data.len))

\* classDataContainer.decodeClassData and
\* OptionBootFileParameters.decodeParameters: [strings, fault]
RECURSIVE decodeClassData(_, _)
decodeClassData(data, opaque) ==
  IF data.len < 2 THEN [strings |-> opaque, fault |-> FALSE]
  ELSE
    LET pl == Uint16At(data, 0)
        next == Add16(2, pl)
    IN  IF ToUint16(data.len) < next THEN [strings |-> opaque, fault |-> FALSE]
        ELSE IF ~CanSlice(data, 2, next) THEN [strings |-> opaque, fault |-> TRUE]
        ELSE IF ~CanSlice(data, next, data.len)
               THEN [strings |-> opaque, fault |-> TRUE]
        ELSE decodeClassData(SliceOf(data, next, data.len),
                             Append(opaque, BytesAt(data, 2, next)))

\* the loop of the ClientSystemArchitectureType case:
\* for i := uint16(0); i < optionLen; i += 2 { data[4+i:6+i] }
RECURSIVE decodeArchTypes(_, _, _, _)
decodeArchTypes(data, optionLen, i, at) ==
  IF ~(i < optionLen) THEN [types |-> at, fault |-> "nil"]
  ELSE IF ~CanSlice(data, Add16(4, i), Add16(6, i))
         THEN [types |-> at, fault |-> "panic"]
  ELSE IF Add16(i, 2) < i THEN [types |-> at, fault |-> "hang"]
  ELSE decodeArchTypes(data, optionLen, Add16(i, 2),
                       Append(at, Uint16At(data, Add16(4, i))))

\* the preference bits of byte data[9] with bit 4 alone also read as Low
PreferenceOfBit4(b) ==
  LET bit4 == (b \div 16) % 2
      bit3 == (b \div 8) % 2
  IN  IF bit4 = 1 THEN RoutePreferenceLow
      ELSE IF bit3 = 1 THEN RoutePreferenceHigh
      ELSE RoutePreferenceMedium

\* the preference bits of byte data[9] of a RoutePrefix option
PreferenceOfByte(b) ==
  LET bit4 == (b \div 16) % 2
      bit3 == (b \div 8) % 2
  IN  IF bit4 = 1 /\ bit3 = 1 THEN RoutePreferenceLow
      ELSE IF bit3 = 1 THEN RoutePreferenceHigh
      ELSE RoutePreferenceMedium

RECURSIVE DecodeOptions(_)
RECURSIVE DecodeLoop(_, _)

\* case OptionTypeClientID with errOptionTooShort returned for every error
\* of DecodeDUID
DecodeIDOptionTooShort(data, optionLen, kind) ==
  LET e == Add16(4, optionLen)
  IN  IF ~CanSlice(data, 4, e) THEN Failed("panic")
      ELSE LET r == DecodeDUID(SliceOf(data, 4, e))
           IN  IF r.err # "nil" THEN Failed("option too short")
               ELSE Decoded([kind |-> kind, DUID |-> r.duid])

\* case OptionTypeClientID, case OptionTypeServerID
DecodeIDOption(data, optionLen, kind) ==
  LET e == Add16(4, optionLen)
  IN  IF ~CanSlice(data, 4, e) THEN Failed("panic")
      ELSE LET r == DecodeDUID(SliceOf(data, 4, e))
           IN  IF r.err # "nil" THEN Failed(r.err)
               ELSE Decoded([kind |-> kind, DUID |-> r.duid])

\* the nested options of a container option whose fixed part ends at offset
\* from: [list, err]
DecodeNested(data, optionLen, fixed, from) ==
  LET e == Add16(optionLen, 4)
  IN  IF ~(optionLen > fixed) THEN [list |-> <<>>, err |-> "nil"]
      ELSE IF ~CanSlice(data, from, e) THEN [list |-> <<>>, err |-> "panic"]
      ELSE DecodeOptions(SliceOf(data, from, e))

\* case OptionTypeIANA without the optionLen < 12 check
DecodeIANANoMinimum(data, optionLen) ==
  IF ~CanSlice(data, 12, 16) THEN Failed("panic")
  ELSE LET n == DecodeNested(data, optionLen, 12, 16)
       IN  IF n.err # "nil" THEN Failed(n.err)
           ELSE Decoded([kind |-> "IANA",
                         IAID |-> Uint32At(data, 4),
                         T1 |-> DurationOfU32(Uint32At(data, 8)),
                         T2 |-> DurationOfU32(Uint32At(data, 12)),
                         options |-> n.list])

\* case OptionTypeIANA
DecodeIANA(data, optionLen) ==
  IF optionLen < 12 THEN Failed("option too short")
  ELSE IF ~CanSlice(data, 12, 16) THEN Failed("panic")
  ELSE LET n == DecodeNested(data, optionLen, 12, 16)
       IN  IF n.err # "nil" THEN Failed(n.err)
           ELSE Decoded([kind |-> "IANA",
                         IAID |-> Uint32At(data, 4),
                         T1 |-> DurationOfU32(Uint32At(data, 8)),
                         T2 |-> DurationOfU32(Uint32At(data, 12)),
                         options |-> n.list])

\* case OptionTypeIAAddress
DecodeIAAddress(data, optionLen) ==
  IF optionLen < 24 THEN Failed("option too short")
  ELSE IF ~CanSlice(data, 24, 28) THEN Failed("panic")
  ELSE Decoded([kind |-> "IAAddress",
                Address |-> BytesAt(data, 4, 20),
                PreferredLifetime |-> DurationOfU32(Uint32At(data, 20)),
                ValidLifetime |-> DurationOfU32(Uint32At(data, 24))])

\* case OptionTypeOptionRequest
DecodeOptionRequest(data, optionLen) ==
  LET e == Add16(4, optionLen)
  IN  IF ~(optionLen > 0) THEN Decoded([kind |-> "OptionRequest", Options |-> <<>>])
      ELSE IF ~CanSlice(data, 4, e) THEN Failed("panic")
      ELSE Decoded([kind |-> "OptionRequest",
                    Options |-> decodeOptions(SliceOf(data, 4, e))])

\* case OptionTypeElapsedTime
DecodeElapsedTime(data, optionLen) ==
  IF optionLen < 2 THEN Failed("option too short")
  ELSE IF optionLen > 2 THEN Failed("option too long")
  ELSE IF ~CanSlice(data, 4, Add16(4, optionLen)) THEN Failed("panic")
  ELSE Decoded([kind |-> "ElapsedTime",
                ElapsedTime |-> ElapsedOfWire(Uint16At(data, 4))])

\* case OptionTypeStatusCode
DecodeStatusCode(data, optionLen) ==
  LET e == Add16(optionLen, 4)
  IN  IF optionLen < 2 THEN Failed("option too short")
      ELSE IF ~CanSlice(data, 4, 6) THEN Failed("panic")
      ELSE IF ~CanSlice(data, 6, e) THEN Failed("panic")
      ELSE Decoded([kind |-> "StatusCode",
                    Code |-> Uint16At(data, 4),
                    Message |-> BytesAt(data, 6, e)])

\* case OptionTypeRapidCommit
DecodeRapidCommit(data, optionLen) ==
  IF optionLen # 0 THEN Failed("option too long")
  ELSE Decoded([kind |-> "RapidCommit"])

\* case OptionTypeUserClass
DecodeUserClass(data, optionLen) ==
  LET e == Add16(4, optionLen)
  IN  IF ~(optionLen > 0) THEN Decoded([kind |-> "UserClass", ClassData |-> <<>>])
      ELSE IF ~CanSlice(data, 4, e) THEN Failed("panic")
      ELSE LET r == decodeClassData(SliceOf(data, 4, e), <<>>)
           IN  IF r.fault THEN Failed("panic")
               ELSE Decoded([kind |-> "UserClass", ClassData |-> r.strings])

\* case OptionTypeVendorClass
DecodeVendorClass(data, optionLen) ==
  LET e == Add16(4, optionLen)
  IN  IF ~CanSlice(data, 4, 8) THEN Failed("panic")
      ELSE IF ~(optionLen > 4)
             THEN Decoded([kind |-> "VendorClass",
                           EnterpriseNumber |-> Uint32At(data, 4),
                           ClassData |-> <<>>])
      ELSE IF ~CanSlice(data, 8, e) THEN Failed("panic")
      ELSE LET r == decodeClassData(SliceOf(data, 8, e), <<>>)
           IN  IF r.fault THEN Failed("panic")
               ELSE Decoded([kind |-> "VendorClass",
                             EnterpriseNumber |-> Uint32At(data, 4),
                             ClassData |-> r.strings])

\* case OptionTypeBootFileURL
DecodeBootFileURL(data, optionLen) ==
  LET e == Add16(4, optionLen)
  IN  IF ~(optionLen > 0) THEN Decoded([kind |-> "BootFileURL", URL |-> <<>>])
      ELSE IF ~CanSlice(data, 4, e) THEN Failed("panic")
      ELSE Decoded([kind |-> "BootFileURL", URL |-> BytesAt(data, 4, e)])

\* case OptionTypeBootFileParameters
DecodeBootFileParameters(data, optionLen) ==
  LET e == Add16(4, optionLen)
  IN  IF ~(optionLen > 0)
        THEN Decoded([kind |-> "BootFileParameters", Parameters |-> <<>>])
      ELSE IF ~CanSlice(data, 4, e) THEN Failed("panic")
      ELSE LET r == decodeClassData(SliceOf(data, 4, e), <<>>)
           IN  IF r.fault THEN Failed("panic")
               ELSE Decoded([kind |-> "BootFileParameters",
                             Parameters |-> r.strings])

\* case OptionTypeClientSystemArchitectureType
DecodeArchitectureType(data, optionLen) ==
  IF ~(optionLen > 0)
    THEN Decoded([kind |-> "ClientSystemArchitectureType", Types |-> <<>>])
  ELSE LET r == decodeArchTypes(data, optionLen, 0, <<>>)
       IN  IF r.fault # "nil" THEN Failed(r.fault)
           ELSE Decoded([kind |-> "ClientSystemArchitectureType",
                         Types |-> r.types])

\* case OptionTypeClientNetworkInterfaceIdentifier
DecodeInterfaceIdentifier(data, optionLen) ==
  IF optionLen # 3 THEN Failed("option too short")
  ELSE IF ~CanIndex(data, 6) THEN Failed("panic")
  ELSE Decoded([kind |-> "ClientNetworkInterfaceIdentifier",
                InterfaceType |-> At(data, 4),
                RevisionMajor |-> At(data, 5),
                RevisionMinor |-> At(data, 6)])

\* case OptionTypeNextHop
DecodeNextHop(data, optionLen) ==
  IF optionLen < 16 THEN Failed("option too short")
  ELSE IF ~CanSlice(data, 4, 20) THEN Failed("panic")
  ELSE LET n == DecodeNested(data, optionLen, 16, 20)
       IN  IF n.err # "nil" THEN Failed(n.err)
           ELSE Decoded([kind |-> "NextHop",
                         Address |-> BytesAt(data, 4, 20),
                         options |-> n.list])

\* case OptionTypeRoutePrefix
DecodeRoutePrefix(data, optionLen) ==
  IF optionLen < 22 THEN Failed("option too short")
  ELSE IF ~CanIndex(data, 9) THEN Failed("panic")
  ELSE IF ~CanSlice(data, 10, 26) THEN Failed("panic")
  ELSE LET n == DecodeNested(data, optionLen, 22, 26)
       IN  IF n.err # "nil" THEN Failed(n.err)
           ELSE Decoded([kind |-> "RoutePrefix",
                         RouteLifetime |-> Uint32At(data, 4),
                         PrefixLength |-> At(data, 8),
                         Preference |-> PreferenceOfByte(At(data, 9)),
                         Metric |-> 0,
                         Prefix |-> BytesAt(data, 10, 26),
                         options |-> n.list])

\* the switch on optionType: [opt, err]
DecodeOption(data, optionType, optionLen) ==
  CASE optionType = OptionTypeClientID -> DecodeIDOption(data, optionLen, "ClientID")
    [] optionType = OptionTypeServerID -> DecodeIDOption(data, optionLen, "ServerID")
    [] optionType = OptionTypeIANA -> DecodeIANA(data, optionLen)
    [] optionType = OptionTypeIAAddress -> DecodeIAAddress(data, optionLen)
    [] optionType = OptionTypeOptionRequest -> DecodeOptionRequest(data, optionLen)
    [] optionType = OptionTypeElapsedTime -> DecodeElapsedTime(data, optionLen)
    [] optionType = OptionTypeStatusCode -> DecodeStatusCode(data, optionLen)
    [] optionType = OptionTypeRapidCommit -> DecodeRapidCommit(data, optionLen)
    [] optionType = OptionTypeUserClass -> DecodeUserClass(data, optionLen)
    [] optionType = OptionTypeVendorClass -> DecodeVendorClass(data, optionLen)
    [] optionType = OptionTypeBootFileURL -> DecodeBootFileURL(data, optionLen)
    [] optionType = OptionTypeBootFileParameters ->
         DecodeBootFileParameters(data, optionLen)
    [] optionType = OptionTypeClientSystemArchitectureType ->
         DecodeArchitectureType(data, optionLen)
    [] optionType = OptionTypeClientNetworkInterfaceIdentifier ->
         DecodeInterfaceIdentifier(data, optionLen)
    [] optionType = OptionTypeNextHop -> DecodeNextHop(data, optionLen)
    [] optionType = OptionTypeRoutePrefix -> DecodeRoutePrefix(data, optionLen)
    [] OTHER -> Decoded(NoOption)

\* the option type the loop reads from a header: OptionType is a uint8
HeaderType(data) == ToUint8(Uint16At(data, 0))

\* the body length the loop reads from a header
HeaderLen(data) == Uint16At(data, 2)

\* the bytes one iteration steps over: 4 + optionLen, a uint16 sum
HeaderEnd(data) == Add16(HeaderLen(data), 4)

\* the for loop of DecodeOptions, entered with the options decoded so far
DecodeLoop(data, list) ==
  IF data.len < 4 THEN [list |-> list, err |-> "option too short"]
  ELSE IF data.len < HeaderEnd(data)
         THEN [list |-> list, err |-> "option too short"]
  ELSE
    LET r == DecodeOption(data, HeaderType(data), HeaderLen(data))
        list2 == IF r.opt.kind = "none" THEN list ELSE Append(list, r.opt)
    IN  IF r.err \in Faults THEN [list |-> <<>>, err |-> r.err]
        ELSE IF r.err # "nil" THEN [list |-> list, err |-> r.err]
        ELSE IF data.len <= HeaderEnd(data) THEN [list |-> list2, err |-> "nil"]
        ELSE IF HeaderEnd(data) = 0 THEN [list |-> <<>>, err |-> "hang"]
        ELSE DecodeLoop(SliceOf(data, HeaderEnd(data), data.len), list2)

\* DecodeOptions: [list, err]
DecodeOptions(data) == DecodeLoop(data, <<>>)

\* ------------------------------------------------------------------------
\* Message envelope
\* ------------------------------------------------------------------------

\* optionContainer.HasOption with the loop in reverse: the last option of
\* type t
RECURSIVE HasOptionLast(_, _)
HasOptionLast(options, t) ==
  IF options = <<>> THEN NoOption
  ELSE IF OptionTypeOf(options[Len(options)]) = t THEN options[Len(options)]
  ELSE HasOptionLast(SubSeq(options, 1, Len(options) - 1), t)

\* optionContainer.HasOption: for _, opt := range o.options, the first opt
\* with opt.Type() == t, or nil
RECURSIVE HasOption(_, _)
HasOption(options, t) ==
  IF options = <<>> THEN NoOption
  ELSE IF OptionTypeOf(Head(options)) = t THEN Head(options)
  ELSE HasOption(Tail(options), t)

\* optionContainer.AddOption: o.options = append(o.options, opt)
AddOption(options, opt) == Append(options, opt)

\* optionContainer.SetOption without the return inside the loop: the new
\* option is also appended after it replaced one
SetOptionAndAppend(options, newopt) ==
  LET same == { i \in 1..Len(options) :
                  OptionTypeOf(options[i]) = OptionTypeOf(newopt) }
  IN  IF same = {} THEN Append(options, newopt)
      ELSE LET i == CHOOSE k \in same : \A j \in same : k <= j
           IN  Append([options EXCEPT ![i] = newopt], newopt)

\* optionContainer.SetOption that leaves an option of the type of newopt
\* where it is, and appends newopt when there is none
SetOptionKeepsOld(options, newopt) ==
  LET same == { i \in 1..Len(options) :
                  OptionTypeOf(options[i]) = OptionTypeOf(newopt) }
  IN  IF same = {} THEN Append(options, newopt) ELSE options

\* optionContainer.SetOption: o.options[i] = newopt at the first i with
\* opt.Type() == newopt.Type() and return; without one, append
SetOption(options, newopt) ==
  LET same == { i \in 1..Len(options) :
                  OptionTypeOf(options[i]) = OptionTypeOf(newopt) }
  IN  IF same = {} THEN Append(options, newopt)
      ELSE LET i == CHOOSE k \in same : \A j \in same : k <= j
           IN  [options EXCEPT ![i] = newopt]

\* Message.HasOption: the first o of m.Options with o.Type() == t, or nil
RECURSIVE MessageHasOption(_, _)
MessageHasOption(Options, t) ==
  IF Options = <<>> THEN NoOption
  ELSE IF OptionTypeOf(Head(Options)) = t THEN Head(Options)
  ELSE MessageHasOption(Tail(Options), t)

\* Message.AddOption: m.Options = append(m.Options, o)
MessageAddOption(Options, o) == Append(Options, o)

\* the nil *Message
NilMessage == [kind |-> "nil"]

\* Message.Marshal: PutUint32(b[0:4], m.Xid), then b[0] = uint8(m.MessageType)
MessageMarshal(m) ==
  <<m.MessageType>> \o Tail(PutUint32(m.Xid))
    \o (IF Len(m.Options) > 0 THEN OptionsMarshal(m.Options) ELSE <<>>)

\* the transaction id read as the whole first 32-bit word, type byte included
XidOfWholeWord(data) ==
  <<At(data, 0) * ByteMod + At(data, 1), At(data, 2) * ByteMod + At(data, 3)>>

\* binary.BigEndian.Uint32(append([]byte{0}, data[1:4]...))
XidOf(data) == <<At(data, 1), At(data, 2) * ByteMod + At(data, 3)>>

\* fmt.Errorf("could not decode options: %s", err)
WrapOptionsError(err) == "could not decode options: " \o err

\* DecodeMessage: [msg, err]
DecodeMessage(data) ==
  IF data.len < 4 THEN [msg |-> NilMessage, err |-> "message too short"]
  ELSE IF ~(data.len > 4)
         THEN [msg |-> [kind |-> "Message", MessageType |-> At(data, 0),
                        Xid |-> XidOf(data), Options |-> <<>>],
               err |-> "nil"]
  ELSE LET r == DecodeOptions(SliceOf(data, 4, data.len))
       IN  IF r.err \in Faults THEN [msg |-> NilMessage, err |-> r.err]
           ELSE IF r.err # "nil"
                  THEN [msg |-> NilMessage, err |-> WrapOptionsError(r.err)]
           ELSE [msg |-> [kind |-> "Message", MessageType |-> At(data, 0),
                          Xid |-> XidOf(data), Options |-> r.list],
                 err |-> "nil"]

\* ParseMessage, the decoder of the older revision: [msg, err, data], where
\* data is the caller's buffer as the call leaves it.  It reads the type,
\* sets data[0] = 0 and reads the transaction id from data[0:4].
ParseMessage(data) ==
  IF data.len < 4
    THEN [msg |-> NilMessage, err |-> "message too short", data |-> data]
  ELSE
    LET zeroed == [data EXCEPT !.arr[1] = 0]
        header == [kind |-> "Message", MessageType |-> At(data, 0),
                   Xid |-> Uint32At(zeroed, 0)]
    IN  IF ~(zeroed.len > 4)
          THEN [msg |-> header @@ [Options |-> <<>>], err |-> "nil",
                data |-> zeroed]
        ELSE LET r == DecodeOptions(SliceOf(zeroed, 4, zeroed.len))
             IN  IF r.err \in Faults
                   THEN [msg |-> NilMessage, err |-> r.err, data |-> zeroed]
                 ELSE IF r.err # "nil"
                   THEN [msg |-> NilMessage, err |-> WrapOptionsError(r.err),
                         data |-> zeroed]
                 ELSE [msg |-> header @@ [Options |-> r.list], err |-> "nil",
                       data |-> zeroed]

\* ------------------------------------------------------------------------
\* The values and the buffers the codec is run on
\* ------------------------------------------------------------------------

\* bytes of spare capacity behind a received buffer (buf[:n] of a larger buf)
MaxSpare == 4

\* n bytes of value v
Fill(n, v) == [i \in 1..n |-> v]

\* a uint32 from an integer below 2^31
U32Of(n) == <<n \div U16Mod, n % U16Mod>>

\* a duration of n nanoseconds, n below 2^31
Nanos(n) == <<0, 0, n \div U16Mod, n % U16Mod>>

\* a duration of n milliseconds, n below 2^16
Millis(n) == DurationMul(DurationMul(<<0, 0, 0, n>>, Thousand), Thousand)

\* a duration of n seconds, n below 2^16
Seconds(n) == DurationMul(Millis(n), Thousand)

\* fdd4:4732:15d9:ea6a::1000
Addr == <<253, 212, 71, 50, 21, 217, 234, 106, 0, 0, 0, 0, 0, 0, 16, 0>>

MacAddr == <<170, 187, 204, 221, 238, 255>>

DUIDValues ==
  { [kind |-> "LLT", HardwareType |-> 1, Time |-> U32Of(1446771200),
     LinkLayerAddress |-> MacAddr],
    [kind |-> "LLT", HardwareType |-> 1, Time |-> U32Of(0),
     LinkLayerAddress |-> <<>>],
    [kind |-> "LL", HardwareType |-> 1, LinkLayerAddress |-> MacAddr],
    [kind |-> "UUID", UUID |-> [i \in 1..16 |-> i]] }

\* options without nested options
LeafOptions ==
  { [kind |-> k, DUID |-> d] : k \in {"ClientID", "ServerID"}, d \in DUIDValues }
  \cup
  { [kind |-> "IAAddress", Address |-> Addr, PreferredLifetime |-> t,
     ValidLifetime |-> Nanos(7200)] : t \in {Nanos(3600), Seconds(3600)} }
  \cup
  { [kind |-> "OptionRequest", Options |-> os] : os \in {<<>>, <<23, 24>>} }
  \cup
  { [kind |-> "ElapsedTime", ElapsedTime |-> t] :
      t \in {Millis(0), Millis(100), Millis(15), Millis(65535)} }
  \cup
  { [kind |-> "StatusCode", Code |-> c, Message |-> m] :
      c \in {0, 4}, m \in {<<>>, <<102, 111, 111>>} }
  \cup
  { [kind |-> "RapidCommit"] }
  \cup
  { [kind |-> "UserClass", ClassData |-> cd] :
      cd \in {<<>>, << <<97, 98>> >>, << <<>>, <<97>> >>} }
  \cup
  { [kind |-> "VendorClass", EnterpriseNumber |-> U32Of(1234), ClassData |-> cd] :
      cd \in {<<>>, << <<97, 98>>, <<99>> >>} }
  \cup
  { [kind |-> "BootFileURL", URL |-> u] : u \in {<<>>, <<104, 116, 116, 112>>} }
  \cup
  { [kind |-> "BootFileParameters", Parameters |-> ps] :
      ps \in {<<>>, << <<97>>, <<98, 99>> >>} }
  \cup
  { [kind |-> "ClientSystemArchitectureType", Types |-> ts] :
      ts \in {<<>>, <<7>>, <<7, 9>>} }
  \cup
  { [kind |-> "ClientNetworkInterfaceIdentifier", InterfaceType |-> 1,
     RevisionMajor |-> 3, RevisionMinor |-> 16] }

\* a RoutePrefix option; the preference is Medium, High or Low
RoutePrefixes(nested) ==
  { [kind |-> "RoutePrefix", RouteLifetime |-> U32Of(3600), PrefixLength |-> 64,
     Preference |-> p, Metric |-> m, Prefix |-> Addr, options |-> os] :
      p \in {RoutePreferenceMedium, RoutePreferenceHigh, RoutePreferenceLow},
      m \in {0, 10}, os \in nested }

IANAs(nested) ==
  { [kind |-> "IANA", IAID |-> U32Of(16423199), T1 |-> t.a, T2 |-> t.b,
     options |-> os] :
      t \in {[a |-> Nanos(300), b |-> Nanos(450)],
             [a |-> Seconds(300), b |-> Seconds(450)]},
      os \in nested }

NextHops(nested) ==
  { [kind |-> "NextHop", Address |-> Addr, options |-> os] : os \in nested }

StatusFoo == [kind |-> "StatusCode", Code |-> 0, Message |-> <<102, 111, 111>>]

IAAddr ==
  [kind |-> "IAAddress", Address |-> Addr, PreferredLifetime |-> Nanos(3600),
   ValidLifetime |-> Nanos(7200)]

\* option lists nested one level deep
NestedLists1 ==
  { <<>>, <<StatusFoo>>, <<IAAddr>>, <<[kind |-> "RapidCommit"], [kind |-> "RapidCommit"]>> }

\* an option list that itself holds a container option
NestedLists2 ==
  { <<o>> : o \in RoutePrefixes({<<StatusFoo>>}) }

\* a BootFileURL option whose URL is 65536 bytes long; the URL reads as two
\* option frames of type code 0, with bodies of 0 and of 65528 bytes
LongURL ==
  [kind |-> "BootFileURL",
   URL |-> <<0, 0, 0, 0>> \o <<0, 0, 255, 248>> \o Fill(U16Mod - 8, 0)]

\* an IAAddress option whose net.IP is in the 4-byte form (192.0.2.1)
ShortIPAddress ==
  [kind |-> "IAAddress", Address |-> <<192, 0, 2, 1>>,
   PreferredLifetime |-> Nanos(3600), ValidLifetime |-> Nanos(7200)]

\* the option values that are marshalled
OptionValues ==
  LeafOptions \cup RoutePrefixes(NestedLists1) \cup IANAs(NestedLists1)
    \cup NextHops(NestedLists1 \cup NestedLists2) \cup {LongURL, ShortIPAddress}

\* the messages that are marshalled: Solicit and the last uint8 type, a
\* transaction id in 24 bits and one above
MessageValues ==
  { [kind |-> "Message", MessageType |-> mt, Xid |-> x, Options |-> os] :
      mt \in {1, 255},
      x \in {U32Of(0), U32Of(123456), U32Of(16777216 + 123456)},
      os \in { <<>>,
               <<[kind |-> "RapidCommit"]>>,
               <<[kind |-> "ClientID", DUID |-> [kind |-> "LL", HardwareType |-> 1,
                                                 LinkLayerAddress |-> MacAddr]],
                 [kind |-> "ElapsedTime", ElapsedTime |-> Millis(100)]>>,
               <<IAAddr, StatusFoo, [kind |-> "RapidCommit"]>>,
               <<[kind |-> "RoutePrefix", RouteLifetime |-> U32Of(3600),
                  PrefixLength |-> 64, Preference |-> RoutePreferenceLow,
                  Metric |-> 10, Prefix |-> Addr, options |-> <<>>]>> } }

\* a hand-made option frame: a 16-bit type, a 16-bit length field, a body
Frame(t, l, body) == PutUint16(t) \o PutUint16(l) \o body

\* type codes of frames: the implemented ones, codes DecodeOptions has no
\* case for, and codes above 255
UnknownCodes == {0, 7, 23, 255}

WideCodes == {257, 256 + 14, 256 * 255 + 7}

\* length fields of frames: the minimum body lengths of the variants, their
\* neighbours, and the four largest values
SmallLens == {0, 1, 2, 3, 4, 5, 11, 12, 15, 16, 21, 22, 23, 24, 28}

LenFields == SmallLens \cup (U16Mod - 4 .. U16Mod - 1)

FrameInputs ==
  { Frame(t, l, Fill(n, v)) :
      t \in ImplementedTypes \cup UnknownCodes \cup WideCodes,
      l \in LenFields, n \in SmallLens, v \in {0, 255} }

\* the marshalled options that are cut short or have one byte changed
Seeds == { OptionMarshal(o) : o \in OptionValues \ {LongURL, ShortIPAddress} }

Truncations ==
  UNION { { SubSeq(b, 1, k) : k \in 0..(Len(b) - 1) } : b \in Seeds }

SetByte(b, i, v) == [b EXCEPT ![i] = v]

Corruptions ==
  UNION { { SetByte(b, i, v) : i \in 1..Len(b), v \in {0, 255} } : b \in Seeds }

\* a known option, a well-formed option of another type code, a known option
Sandwiches ==
  { OptionMarshal(a) \o Frame(t, Len(body), body) \o OptionMarshal(b) :
      a \in {[kind |-> "RapidCommit"], StatusFoo},
      b \in {[kind |-> "RapidCommit"], IAAddr},
      t \in UnknownCodes \cup WideCodes,
      body \in {<<>>, <<9, 9>>} }

\* a complete option followed by an option that is cut short
SecondCutShort == { OptionMarshal(StatusFoo) \o b : b \in Truncations }

\* option frames that fail to decode, each with its own error: an
\* identifier of 1 byte, an identifier of type 2, an ElapsedTime body of 3
\* bytes, a StatusCode body of 1 byte, a header cut short
BadFrames ==
  { Frame(OptionTypeClientID, 1, <<0>>),
    Frame(OptionTypeServerID, 2, <<0, 2>>),
    Frame(OptionTypeElapsedTime, 3, <<0, 0, 1>>),
    Frame(OptionTypeStatusCode, 1, <<0>>),
    <<0, 13, 0>> }

\* an IANA, NextHop or RoutePrefix frame around the option bytes inner
ContainerFrame(t, inner) ==
  LET fixed == CASE t = OptionTypeIANA -> Fill(12, 1)
                 [] t = OptionTypeNextHop -> Addr
                 [] t = OptionTypeRoutePrefix -> <<0, 0, 14, 16, 64, 24>> \o Addr
  IN  Frame(t, Len(fixed) + Len(inner), fixed \o inner)

ContainerTypes == {OptionTypeIANA, OptionTypeNextHop, OptionTypeRoutePrefix}

\* a frame that fails to decode inside one container option, and inside a
\* container option inside a container option
NestedFailures ==
  { ContainerFrame(t, bad) : t \in ContainerTypes, bad \in BadFrames }
  \cup
  { ContainerFrame(t, ContainerFrame(u, bad)) :
      t \in ContainerTypes, u \in ContainerTypes, bad \in BadFrames }

\* a short option of a variant whose body is read at fixed offsets or in
\* steps, with all its declared bytes, followed by a complete option
FollowedFrames ==
  { Frame(t, l, Fill(l, v)) \o OptionMarshal(b) :
      t \in {OptionTypeUserClass, OptionTypeVendorClass,
              OptionTypeClientSystemArchitectureType},
      l \in 0..5, v \in {0, 1},
      b \in {[kind |-> "RapidCommit"], StatusFoo} }

\* class data and parameters: a 16-bit length prefix p and the bytes after it
PrefixValues == {0, 1, 3, 65533, 65534, 65535}

PrefixBodies ==
  { PutUint16(p) \o tail : p \in PrefixValues,
                            tail \in {<<>>, <<97>>, <<97, 98>>, <<97, 98, 99>>} }
    \cup { <<0, 1, 97>> \o PutUint16(p) \o <<98>> : p \in PrefixValues }

PrefixFrames ==
  { Frame(t, Len(b), b) :
      t \in {OptionTypeUserClass, OptionTypeBootFileParameters},
      b \in PrefixBodies }
    \cup { Frame(OptionTypeVendorClass, 4 + Len(b), <<0, 0, 0, 9>> \o b) :
             b \in PrefixBodies }

\* a complete IANA frame of body length 65532: twelve fixed bytes and one
\* nested BootFileURL option of 4 + 65516 bytes
WideIANA ==
  Frame(OptionTypeIANA, U16Mod - 4,
        Fill(12, 1) \o Frame(OptionTypeBootFileURL, U16Mod - 20,
                             Fill(U16Mod - 20, 97)))

\* values of the preference byte data[9]: each setting of bits 3 and 4, with
\* the other bits clear and with the other bits set
PreferenceBytes == {0, 8, 16, 24, 231, 239, 247, 255}

\* RoutePrefix frames of body length 22 with each preference byte
PreferenceFrames ==
  { Frame(OptionTypeRoutePrefix, 22, <<0, 0, 14, 16, 64, b>> \o Addr) :
      b \in PreferenceBytes }

\* the byte sequences DecodeOptions is run on
OptionInputs ==
  FrameInputs \cup Truncations \cup Corruptions \cup Sandwiches
    \cup SecondCutShort \cup BadFrames \cup NestedFailures
    \cup FollowedFrames \cup PrefixFrames \cup {WideIANA}
    \cup PreferenceFrames

\* the byte sequences DecodeMessage is run on: short ones, and a header
\* followed by option bytes
MessageInputs ==
  { SubSeq(<<1, 1, 226, 64>>, 1, k) : k \in 0..4 }
  \cup
  { <<mt, 1, 226, 64>> \o b :
      mt \in {1, 255}, b \in Seeds \cup Truncations \cup Sandwiches }

\* the 16-bit discriminators of the identifier inputs: the implemented ones
\* (1, 3, 4), EnterpriseNumber (2), others below 256, and codes above 255
DUIDCodes == {0, 1, 2, 3, 4, 5, 255, 256, 257, 259, 260, 65535}

\* the 32-bit wire timestamps of the identifier inputs: the ends of the
\* range and both sides of 2^32 - 946771200
DUIDTimes ==
  { <<0, 0>>, <<7629, 25856>>, <<51089, 27391>>, <<51089, 27392>>,
    <<65535, 65535>> }

\* the longest identifier input; 18 is the length of a UUID identifier
MaxDUIDLen == 19

\* the byte sequences DecodeDUID is run on: a discriminator, hardware type
\* 1, a timestamp and further bytes, cut at every length
DUIDInputs ==
  { SubSeq(PutUint16(t) \o <<0, 1>> \o PutUint32(w)
             \o [i \in 1..(MaxDUIDLen - 8) |-> 160 + i], 1, n) :
      t \in DUIDCodes, w \in DUIDTimes, n \in 0..MaxDUIDLen }

\* the most options an option list is grown to
MaxOptions == 3

\* the most SetOption calls of a run that calls nothing but SetOption
MaxSets == 3

\* a second status code option
StatusBar == [kind |-> "StatusCode", Code |-> 1, Message |-> <<98, 97, 114>>]

\* the options put into an option list: two of the same type, and options
\* that hold options themselves
ContainerOptions ==
  { [kind |-> "RapidCommit"], StatusFoo, StatusBar }
    \cup IANAs({<<>>, <<StatusFoo>>})

\* a BootFileURL option whose Len() is 32766: two of them and their headers
\* take 65540 bytes
HalfURL == [kind |-> "BootFileURL", URL |-> Fill(U16Mod \div 2 - 2, 97)]

\* the option lists Options.Len() is called on
LenLists ==
  { <<>>, <<StatusFoo>>, <<HalfURL>>, <<HalfURL, HalfURL>>,
    <<HalfURL, StatusFoo, HalfURL>> }
    \cup { <<a, b>> : a \in ContainerOptions, b \in ContainerOptions }

\* the option types asked for
QueryTypes ==
  { OptionTypeRapidCommit, OptionTypeStatusCode, OptionTypeIANA,
    OptionTypeIAAddress }

\* the spare capacity behind a received buffer: none, or MaxSpare bytes of
\* whatever the buffer held before
Spares == { <<>>, Fill(MaxSpare, 170) }

\* ------------------------------------------------------------------------
\* The state machine: a value is marshalled or bytes are received, the bytes
\* are decoded, and what was decoded is marshalled again
\* ------------------------------------------------------------------------

VARIABLES
  pc,     \* "idle", "wire" (bytes in hand), "decoded", "remarshalled"
  layer,  \* "options", "message" or "duid": the codec the bytes are for
  sent,   \* the option or message the bytes were marshalled from, or Nothing
  wire,   \* the slice handed to the decoder
  dec,    \* what the decoder returned
  out,    \* the bytes of the decoded value, marshalled again
  after,  \* the caller's buffer as the decoder left it
  held,   \* the option list of a container (o.options) or message (m.Options)
  call,   \* the last call on that list: its name, argument, the list before
          \* it and what it returned
  sets    \* the options given to SetOption, in order, in a run that starts
          \* with an empty container and calls nothing but SetOption

vars == <<pc, layer, sent, wire, dec, out, after, held, call, sets>>

codecVars == <<layer, sent, wire, dec, out, after>>

containerVars == <<held, call, sets>>

Nothing == [kind |-> "none"]

\* no call on the option list yet
NoCall == [op |-> "none"]

Init ==
  /\ pc = "idle"
  /\ layer = "none"
  /\ sent = Nothing
  /\ wire = MkSlice(<<>>)
  /\ dec = Nothing
  /\ out = <<>>
  /\ after = MkSlice(<<>>)
  /\ held = <<>>
  /\ call = NoCall
  /\ sets = <<>>

\* o.Marshal() of an option
MarshalOption ==
  /\ pc = "idle"
  /\ \E o \in OptionValues :
       /\ sent' = o
       /\ wire' = MkSlice(OptionMarshal(o))
  /\ pc' = "wire"
  /\ layer' = "options"
  /\ UNCHANGED <<dec, out, after>>
  /\ UNCHANGED containerVars

\* m.Marshal() of a message
MarshalMessage ==
  /\ pc = "idle"
  /\ \E m \in MessageValues :
       /\ sent' = m
       /\ wire' = MkSlice(MessageMarshal(m))
  /\ pc' = "wire"
  /\ layer' = "message"
  /\ UNCHANGED <<dec, out, after>>
  /\ UNCHANGED containerVars

\* bytes from the network, to be decoded as an option list
ReceiveOptions ==
  /\ pc = "idle"
  /\ \E b \in OptionInputs, spare \in Spares : wire' = MkSliceCap(b, spare)
  /\ pc' = "wire"
  /\ layer' = "options"
  /\ sent' = Nothing
  /\ UNCHANGED <<dec, out, after>>
  /\ UNCHANGED containerVars

\* bytes from the network, to be decoded as a message
ReceiveMessage ==
  /\ pc = "idle"
  /\ \E b \in MessageInputs, spare \in Spares : wire' = MkSliceCap(b, spare)
  /\ pc' = "wire"
  /\ layer' = "message"
  /\ sent' = Nothing
  /\ UNCHANGED <<dec, out, after>>
  /\ UNCHANGED containerVars

\* d.Marshal() of an identifier
MarshalDUID ==
  /\ pc = "idle"
  /\ \E d \in DUIDValues :
       /\ sent' = d
       /\ wire' = MkSlice(DUIDMarshal(d))
  /\ pc' = "wire"
  /\ layer' = "duid"
  /\ UNCHANGED <<dec, out, after>>
  /\ UNCHANGED containerVars

\* bytes from the network, to be decoded as an identifier
ReceiveDUID ==
  /\ pc = "idle"
  /\ \E b \in DUIDInputs, spare \in Spares : wire' = MkSliceCap(b, spare)
  /\ pc' = "wire"
  /\ layer' = "duid"
  /\ sent' = Nothing
  /\ UNCHANGED <<dec, out, after>>
  /\ UNCHANGED containerVars

\* DecodeDUID(wire)
RunDecodeDUID ==
  /\ pc = "wire"
  /\ layer = "duid"
  /\ pc' = "decoded"
  /\ dec' = DecodeDUID(wire)
  /\ after' = wire
  /\ UNCHANGED <<layer, sent, wire, out>>
  /\ UNCHANGED containerVars

\* Marshal of an identifier DecodeDUID returned without error
RemarshalDUID ==
  /\ pc = "decoded"
  /\ layer = "duid"
  /\ dec.err = "nil"
  /\ pc' = "remarshalled"
  /\ out' = DUIDMarshal(dec.duid)
  /\ UNCHANGED <<layer, sent, wire, dec, after>>
  /\ UNCHANGED containerVars

\* DecodeOptions(wire)
RunDecodeOptions ==
  /\ pc = "wire"
  /\ layer = "options"
  /\ pc' = "decoded"
  /\ dec' = DecodeOptions(wire)
  /\ after' = wire
  /\ UNCHANGED <<layer, sent, wire, out>>
  /\ UNCHANGED containerVars

\* DecodeMessage(wire)
RunDecodeMessage ==
  /\ pc = "wire"
  /\ layer = "message"
  /\ pc' = "decoded"
  /\ dec' = DecodeMessage(wire)
  /\ after' = wire
  /\ UNCHANGED <<layer, sent, wire, out>>
  /\ UNCHANGED containerVars

\* ParseMessage(wire), the older revision of the message decoder
RunParseMessage ==
  /\ pc = "wire"
  /\ layer = "message"
  /\ pc' = "decoded"
  /\ LET r == ParseMessage(wire)
     IN  /\ dec' = [msg |-> r.msg, err |-> r.err]
         /\ after' = r.data
  /\ UNCHANGED <<layer, sent, wire, out>>
  /\ UNCHANGED containerVars

\* Options.Marshal of a list DecodeOptions returned without error
RemarshalOptions ==
  /\ pc = "decoded"
  /\ layer = "options"
  /\ dec.err = "nil"
  /\ pc' = "remarshalled"
  /\ out' = OptionsMarshal(dec.list)
  /\ UNCHANGED <<layer, sent, wire, dec, after>>
  /\ UNCHANGED containerVars

\* Message.Marshal of a message DecodeMessage returned without error
RemarshalMessage ==
  /\ pc = "decoded"
  /\ layer = "message"
  /\ dec.err = "nil"
  /\ pc' = "remarshalled"
  /\ out' = MessageMarshal(dec.msg)
  /\ UNCHANGED <<layer, sent, wire, dec, after>>
  /\ UNCHANGED containerVars

\* o.AddOption(opt) on an option container
CallAddOption ==
  /\ pc \in {"idle", "container"}
  /\ Len(held) < MaxOptions
  /\ \E opt \in ContainerOptions :
       /\ held' = AddOption(held, opt)
       /\ call' = [op |-> "AddOption", arg |-> opt, before |-> held,
                   result |-> NoOption]
  /\ pc' = "container"
  /\ UNCHANGED <<codecVars, sets>>

\* o.SetOption(newopt) on an option container
CallSetOption ==
  /\ pc \in {"idle", "container"}
  /\ \E newopt \in ContainerOptions :
       /\ Len(SetOption(held, newopt)) <= MaxOptions
       /\ held' = SetOption(held, newopt)
       /\ call' = [op |-> "SetOption", arg |-> newopt, before |-> held,
                   result |-> NoOption]
  /\ pc' = "container"
  /\ UNCHANGED <<codecVars, sets>>

\* o.HasOption(t) on an option container
CallHasOption ==
  /\ pc \in {"idle", "container"}
  /\ \E t \in QueryTypes :
       call' = [op |-> "HasOption", arg |-> t, before |-> held,
                result |-> HasOption(held, t)]
  /\ pc' = "container"
  /\ UNCHANGED <<codecVars, held, sets>>

\* os.Len() on an option list
CallOptionsLen ==
  /\ pc = "idle"
  /\ \E os \in LenLists :
       call' = [op |-> "Len", arg |-> os, before |-> held,
                result |-> OptionsLen(os)]
  /\ pc' = "len"
  /\ UNCHANGED <<codecVars, held, sets>>

\* o.SetOption(newopt) in a run that starts with an empty container and
\* calls nothing but SetOption and HasOption
CallSetOptionOnly ==
  /\ pc \in {"idle", "sets"}
  /\ Len(sets) < MaxSets
  /\ \E newopt \in ContainerOptions :
       /\ held' = SetOption(held, newopt)
       /\ sets' = Append(sets, newopt)
       /\ call' = [op |-> "SetOption", arg |-> newopt, before |-> held,
                   result |-> NoOption]
  /\ pc' = "sets"
  /\ UNCHANGED codecVars

\* o.HasOption(t) in such a run
CallHasOptionAfterSets ==
  /\ pc = "sets"
  /\ \E t \in QueryTypes :
       call' = [op |-> "HasOption", arg |-> t, before |-> held,
                result |-> HasOption(held, t)]
  /\ pc' = "sets"
  /\ UNCHANGED <<codecVars, held, sets>>

\* m.AddOption(o) on a message
CallMessageAddOption ==
  /\ pc \in {"idle", "message options"}
  /\ Len(held) < MaxOptions
  /\ \E o \in ContainerOptions :
       /\ held' = MessageAddOption(held, o)
       /\ call' = [op |-> "Message.AddOption", arg |-> o, before |-> held,
                   result |-> NoOption]
  /\ pc' = "message options"
  /\ UNCHANGED <<codecVars, sets>>

\* m.HasOption(t) on a message
CallMessageHasOption ==
  /\ pc \in {"idle", "message options"}
  /\ \E t \in QueryTypes :
       call' = [op |-> "Message.HasOption", arg |-> t, before |-> held,
                result |-> MessageHasOption(held, t)]
  /\ pc' = "message options"
  /\ UNCHANGED <<codecVars, held, sets>>

Next ==
  \/ MarshalOption
  \/ MarshalMessage
  \/ ReceiveOptions
  \/ ReceiveMessage
  \/ RunDecodeOptions
  \/ RunDecodeMessage
  \/ RunParseMessage
  \/ RemarshalOptions
  \/ RemarshalMessage
  \/ MarshalDUID
  \/ ReceiveDUID
  \/ RunDecodeDUID
  \/ RemarshalDUID
  \/ CallAddOption
  \/ CallSetOption
  \/ CallHasOption
  \/ CallOptionsLen
  \/ CallSetOptionOnly
  \/ CallHasOptionAfterSets
  \/ CallMessageAddOption
  \/ CallMessageHasOption

Spec == Init /\ [][Next]_vars

\* ------------------------------------------------------------------------
\* Properties
\* ------------------------------------------------------------------------

\* DecodeOptions has run on the bytes of a marshalled option
OptionRoundTripDone ==
  pc = "decoded" /\ layer = "options" /\ sent.kind # "none"

\* DecodeOptions has run on received bytes or on a marshalled option
OptionsDecoded == pc = "decoded" /\ layer = "options"

\* DecodeMessage has run
MessageDecoded == pc = "decoded" /\ layer = "message"

\* the call returned an error value (it did return, and not nil)
ReturnedError == dec.err \notin ({"nil"} \cup Faults)

\* C1: option round trip.  Decoding the bytes of a marshalled option o
\* succeeds and returns the one-element list <<o>>, equal to o in every
\* field (RoutePrefix.Metric and ElapsedTime.ElapsedTime included).
C1_OptionRoundTrip ==
  OptionRoundTripDone => (dec.err = "nil" /\ dec.list = <<sent>>)

\* C2: DecodeOptions and DecodeMessage end, on every input, with a decoded
\* value or an error value: no index outside the buffer, no sub-range whose
\* end is before its start, no run that does not end.
C2_DecodeEndsWithValueOrError ==
  pc = "decoded" => dec.err \notin Faults

\* C3: for the first option header of the buffer, with body length field L:
\* when fewer than 4 bytes are there, or fewer than 4 + L (the plain sum),
\* DecodeOptions fails with "option too short".
C3_ShortBufferIsTooShort ==
  OptionsDecoded =>
    /\ wire.len < 4 => dec.err = "option too short"
    /\ (wire.len >= 4 /\ wire.len < 4 + HeaderLen(wire)) =>
         dec.err = "option too short"

\* the buffer is one option frame exactly: a header and the L bytes it declares
OneFrame == wire.len >= 4 /\ wire.len = 4 + HeaderLen(wire)

\* C4: an option that DecodeOptions returns has a Len() equal to the body
\* length field read from the wire for it; stated for a buffer that is one
\* frame, whose option, when accepted, must have Len() = L.
C4_LenIsWireLength ==
  (OptionsDecoded /\ OneFrame /\ dec.err = "nil") =>
    \A i \in 1..Len(dec.list) : OptionLen(dec.list[i]) = HeaderLen(wire)

\* every option frame of the bytes b, nested ones included, is complete and
\* has one of the implemented 16-bit type codes
RECURSIVE AllImplemented(_)
AllImplemented(b) ==
  IF b = <<>> THEN TRUE
  ELSE IF Len(b) < 4 THEN FALSE
  ELSE
    LET t == b[1] * ByteMod + b[2]
        l == b[3] * ByteMod + b[4]
        fixed == CASE t = OptionTypeIANA -> 12
                   [] t = OptionTypeNextHop -> 16
                   [] t = OptionTypeRoutePrefix -> 22
                   [] OTHER -> l
    IN  /\ t \in ImplementedTypes
        /\ 4 + l <= Len(b)
        /\ l > fixed => AllImplemented(SubSeq(b, 4 + fixed + 1, 4 + l))
        /\ AllImplemented(SubSeq(b, 4 + l + 1, Len(b)))

\* C5: marshalling the list DecodeOptions returned for a buffer in which
\* every option has an implemented type code gives the buffer back, byte for
\* byte.
C5_RemarshalIsInput ==
  (pc = "remarshalled" /\ layer = "options" /\ AllImplemented(Bytes(wire))) =>
    out = Bytes(wire)

\* C6: o.Marshal() is 4 + o.Len() bytes long, starts with o.Type() in two
\* bytes and continues with o.Len() in two bytes, both big-endian.
C6_MarshalLength ==
  (pc = "wire" /\ layer = "options" /\ sent.kind # "none") =>
    /\ wire.len = 4 + OptionLen(sent)
    /\ wire.len >= 4
    /\ Uint16At(wire, 0) = OptionTypeOf(sent)
    /\ Uint16At(wire, 2) = OptionLen(sent)

\* C7: a well-formed option whose 16-bit type code is not an implemented
\* one is skipped: known, unknown, known decodes to the two known options,
\* in wire order and without error.
C7_UnknownTypeSkipped ==
  OptionsDecoded =>
    \A a \in {[kind |-> "RapidCommit"], StatusFoo},
       b \in {[kind |-> "RapidCommit"], IAAddr},
       t \in UnknownCodes \cup WideCodes,
       body \in {<<>>, <<9, 9>>} :
      Bytes(wire) = OptionMarshal(a) \o Frame(t, Len(body), body) \o OptionMarshal(b)
        => (dec.err = "nil" /\ dec.list = <<a, b>>)

\* C8: an error comes with no decoded structure: the list DecodeOptions
\* returns with an error is empty, the message DecodeMessage returns with an
\* error is nil.
C8_ErrorWithoutStructure ==
  (pc = "decoded" /\ ReturnedError) =>
    /\ layer = "options" => dec.list = <<>>
    /\ layer = "message" => dec.msg = NilMessage

\* a uint32 below 2^31 as an integer
IntOfU32(u) == u[1] * U16Mod + u[2]

\* C9: DecodeMessage returns "message too short" and no message for fewer
\* than 4 bytes; a message it returns has MessageType = byte 0 and
\* Xid = byte1 * 65536 + byte2 * 256 + byte3, which is below 2^24.
C9_MessageHeader ==
  MessageDecoded =>
    /\ wire.len < 4 => (dec.err = "message too short" /\ dec.msg = NilMessage)
    /\ wire.len >= 4 => dec.err # "message too short"
    /\ dec.err = "nil" =>
         /\ wire.len >= 4
         /\ dec.msg.MessageType = wire.arr[1]
         /\ dec.msg.Xid[1] < ByteMod
         /\ IntOfU32(dec.msg.Xid) =
              wire.arr[2] * U16Mod + wire.arr[3] * ByteMod + wire.arr[4]
         /\ IntOfU32(dec.msg.Xid) < ByteMod * U16Mod

\* C9 happens: DecodeMessage returned a message with options for a buffer
\* whose type byte is 255 and whose bytes 1..3 are 1, 226, 64
C9_Witness ==
  /\ MessageDecoded
  /\ dec.err = "nil"
  /\ wire.arr[1] = 255
  /\ IntOfU32(dec.msg.Xid) = 123456
  /\ Len(dec.msg.Options) > 0

\* C10: message round trip.  Decoding the bytes of a marshalled message m
\* succeeds and returns m: the same MessageType, Xid and options.
C10_MessageRoundTrip ==
  (MessageDecoded /\ sent.kind = "Message") =>
    /\ dec.err = "nil"
    /\ dec.msg.MessageType = sent.MessageType
    /\ dec.msg.Xid = sent.Xid
    /\ dec.msg.Options = sent.Options

\* C11: decoding a message, with DecodeMessage or with ParseMessage of the
\* older revision, leaves every byte of the caller's buffer as it was, when
\* the call succeeds and when it returns an error.
C11_BufferUnchanged ==
  MessageDecoded => after = wire

\* DecodeDUID has run
DUIDDecoded == pc = "decoded" /\ layer = "duid"

\* C12: for every byte sequence b that DecodeDUID accepts, Marshal of the
\* decoded identifier is b and its Len() is the number of bytes of b.
C12_DUIDByteInverse ==
  /\ (DUIDDecoded /\ dec.err = "nil") => DUIDLen(dec.duid) = wire.len
  /\ (pc = "remarshalled" /\ layer = "duid") => out = Bytes(wire)

\* C13: given at least 2 bytes, DecodeDUID fails with the unhandled-type
\* error for every 16-bit discriminator other than 1, 3 and 4.
C13_UnhandledDiscriminator ==
  (DUIDDecoded /\ wire.len >= 2 /\ Uint16At(wire, 0) \notin {1, 3, 4}) =>
    (dec.err = "unhandled DUIDType" /\ dec.duid = NilDUID)

\* C14: DecodeDUID returns "duid too short" for fewer than 2 bytes, for
\* discriminator 1 with fewer than 8 bytes, for discriminator 3 with fewer
\* than 4 bytes and for discriminator 4 with a length other than 18; with
\* exactly 8 (discriminator 1) or 4 (discriminator 3) bytes it succeeds with
\* an empty link-layer address.
C14_DUIDMinimumLength ==
  DUIDDecoded =>
    /\ wire.len < 2 => dec.err = "duid too short"
    /\ wire.len >= 2 =>
         LET t == Uint16At(wire, 0)
         IN  /\ (t = 1 /\ wire.len < 8) => dec.err = "duid too short"
             /\ (t = 3 /\ wire.len < 4) => dec.err = "duid too short"
             /\ (t = 4 /\ wire.len # 18) => dec.err = "duid too short"
             /\ (t = 1 /\ wire.len = 8) =>
                  /\ dec.err = "nil"
                  /\ dec.duid.kind = "LLT"
                  /\ dec.duid.LinkLayerAddress = <<>>
             /\ (t = 3 /\ wire.len = 4) =>
                  /\ dec.err = "nil"
                  /\ dec.duid.kind = "LL"
                  /\ dec.duid.LinkLayerAddress = <<>>
             /\ (t = 4 /\ wire.len = 18) =>
                  (dec.err = "nil" /\ dec.duid.kind = "UUID")

\* C14 happens: an 8-byte LinkLayerTime identifier was decoded, with an
\* empty link-layer address
C14_Witness ==
  /\ DUIDDecoded
  /\ sent = Nothing
  /\ wire.len = 8
  /\ Uint16At(wire, 0) = 1
  /\ dec.err = "nil"
  /\ dec.duid.LinkLayerAddress = <<>>

\* C15: the decoded time of a LinkLayerTime identifier with wire timestamp
\* w is w + 946771200 seconds after the Unix epoch, the plain sum (which
\* goes beyond 32 bits for the largest w), and Marshal writes the Unix
\* seconds minus 946771200 as the timestamp.
C15_DUIDTimeOffset ==
  /\ (DUIDDecoded /\ sent = Nothing /\ dec.err = "nil"
        /\ Uint16At(wire, 0) = 1) =>
       LET lo == wire.arr[7] * ByteMod + wire.arr[8] + thirtyYearsInSeconds[2]
           hi == wire.arr[5] * ByteMod + wire.arr[6] + thirtyYearsInSeconds[1]
                   + (lo \div U16Mod)
       IN  /\ hi < U16Mod
           /\ dec.duid.Time = <<hi, lo % U16Mod>>
  /\ (pc = "wire" /\ layer = "duid" /\ sent.kind = "LLT") =>
       Add32(Uint32At(wire, 4), thirtyYearsInSeconds) = sent.Time

\* the indexes of the options of type t in a list
IndexesOfType(list, t) == { i \in 1..Len(list) : OptionTypeOf(list[i]) = t }

\* the least index of a non-empty set of indexes
FirstIndex(S) == CHOOSE k \in S : \A j \in S : k <= j

\* C16: SetOption(opt) on a container that holds an option of opt's type
\* puts opt at the index of the first such option and leaves the length and
\* every other element as they were; with no option of that type it appends
\* opt; AddOption(opt) appends opt, whatever the container holds.
C16_ContainerWrites ==
  /\ (pc = "container" /\ call.op = "SetOption") =>
       LET same == IndexesOfType(call.before, OptionTypeOf(call.arg))
       IN  IF same = {}
             THEN /\ Len(held) = Len(call.before) + 1
                  /\ held[Len(held)] = call.arg
                  /\ SubSeq(held, 1, Len(call.before)) = call.before
           ELSE /\ Len(held) = Len(call.before)
                /\ held[FirstIndex(same)] = call.arg
                /\ \A j \in 1..Len(held) :
                     j # FirstIndex(same) => held[j] = call.before[j]
  /\ (pc = "container" /\ call.op = "AddOption") =>
       /\ Len(held) = Len(call.before) + 1
       /\ held[Len(held)] = call.arg
       /\ SubSeq(held, 1, Len(call.before)) = call.before

\* C16 happens: SetOption replaced the first of two options of one type, and
\* the second one is still there
C16_Witness ==
  /\ pc = "container"
  /\ call.op = "SetOption"
  /\ call.arg = StatusBar
  /\ Len(call.before) = 3
  /\ call.before[2] = StatusFoo
  /\ call.before[3] = StatusFoo
  /\ held[2] = StatusBar
  /\ held[3] = StatusFoo

\* C17: HasOption(t), of a container and of a message, returns the first
\* option of the list whose type is t, and nil when the list has none, also
\* when an option of the list holds an option of type t.
C17_HasOptionFirstMatch ==
  (call.op \in {"HasOption", "Message.HasOption"}) =>
    LET same == IndexesOfType(call.before, call.arg)
    IN  IF same = {} THEN call.result = NoOption
        ELSE call.result = call.before[FirstIndex(same)]

\* C17 happens: a StatusCode option was asked for in a list that holds two,
\* behind an IANA option that holds a third
C17_Witness ==
  /\ call.op = "HasOption"
  /\ call.arg = OptionTypeStatusCode
  /\ Len(call.before) = 3
  /\ call.before[1].kind = "IANA"
  /\ call.before[1].options = <<StatusFoo>>
  /\ call.before[2] = StatusBar
  /\ call.before[3] = StatusFoo
  /\ call.result = StatusBar

\* the buffer starts with an option header of type code t (all 16 bits)
\* and holds the body bytes the header declares
FirstFrameOf(t) ==
  /\ OptionsDecoded
  /\ wire.len >= 4
  /\ Uint16At(wire, 0) = t
  /\ 4 + HeaderLen(wire) <= wire.len

\* C18: DecodeOptions returns "option too short" for an option whose body
\* length L is below the minimum of its variant while the buffer holds the
\* L bytes: IANA L < 12, IAAddress L < 24, StatusCode L < 2, NextHop L < 16,
\* RoutePrefix L < 22, ClientNetworkInterfaceIdentifier L < 3.
C18_BelowVariantMinimum ==
  \A m \in { <<OptionTypeIANA, 12>>, <<OptionTypeIAAddress, 24>>,
              <<OptionTypeStatusCode, 2>>, <<OptionTypeNextHop, 16>>,
              <<OptionTypeRoutePrefix, 22>>,
              <<OptionTypeClientNetworkInterfaceIdentifier, 3>> } :
    (FirstFrameOf(m[1]) /\ HeaderLen(wire) < m[2]) =>
      (dec.err = "option too short" /\ dec.list = <<>>)

\* C18 happens: an IANA option of body length 11 was refused, all its 11
\* bytes being in the buffer
C18_Witness ==
  /\ FirstFrameOf(OptionTypeIANA)
  /\ HeaderLen(wire) = 11
  /\ wire.len = 15
  /\ dec.err = "option too short"

\* n * 10 ms in nanoseconds, n * (152 * 65536 + 38528), as a duration
TenMillisTimes(n) ==
  LET a == n * 150
      lo == n * 128 + (a % ByteMod) * ByteMod
      mid == (a \div ByteMod) + n * 152 + (lo \div U16Mod)
  IN  <<0, mid \div U16Mod, mid % U16Mod, lo % U16Mod>>

\* C19: an ElapsedTime option is accepted only with body length 2 (below:
\* "option too short", above: "option too long") and a wire value n is
\* decoded to n * 10 ms; a RapidCommit option is accepted only with body
\* length 0, a longer one gives "option too long".
C19_FixedShapeOptions ==
  /\ FirstFrameOf(OptionTypeElapsedTime) =>
       /\ HeaderLen(wire) < 2 => dec.err = "option too short"
       /\ HeaderLen(wire) > 2 => dec.err = "option too long"
       /\ (HeaderLen(wire) = 2 /\ wire.len = 6) =>
            /\ dec.err = "nil"
            /\ dec.list =
                 <<[kind |-> "ElapsedTime",
                    ElapsedTime |-> TenMillisTimes(Uint16At(wire, 4))]>>
  /\ FirstFrameOf(OptionTypeRapidCommit) =>
       /\ HeaderLen(wire) > 0 => dec.err = "option too long"
       /\ (HeaderLen(wire) = 0 /\ wire.len = 4) =>
            (dec.err = "nil" /\ dec.list = <<[kind |-> "RapidCommit"]>>)

\* C19 happens: the ElapsedTime body 255, 255 was decoded to 655350 ms
C19_Witness ==
  /\ FirstFrameOf(OptionTypeElapsedTime)
  /\ wire.len = 6
  /\ Uint16At(wire, 4) = 65535
  /\ dec.err = "nil"
  /\ Len(dec.list) = 1

\* the error of the identifier in the body of the first frame
FirstDUIDError ==
  DecodeDUID(SliceOf(wire, 4, 4 + HeaderLen(wire))).err

\* the fixed part of the body of a container option of type code t
FixedLen(t) ==
  CASE t = OptionTypeIANA -> 12
    [] t = OptionTypeNextHop -> 16
    [] t = OptionTypeRoutePrefix -> 22

\* the error of the option list nested in the first frame, of type code t
FirstNestedError(t) ==
  DecodeOptions(SliceOf(wire, 4 + FixedLen(t), 4 + HeaderLen(wire))).err

\* C20: when the identifier of a ClientID or ServerID option fails to
\* decode, or the option list nested in an IANA, NextHop or RoutePrefix
\* option fails to decode, DecodeOptions returns that same error.
C20_ErrorPropagation ==
  /\ \A t \in {OptionTypeClientID, OptionTypeServerID} :
       (FirstFrameOf(t) /\ FirstDUIDError # "nil") => dec.err = FirstDUIDError
  /\ \A t \in {OptionTypeIANA, OptionTypeNextHop, OptionTypeRoutePrefix} :
       (FirstFrameOf(t) /\ HeaderLen(wire) > FixedLen(t)
          /\ FirstNestedError(t) \notin ({"nil"} \cup Faults)) =>
         dec.err = FirstNestedError(t)

\* C20 happens: "duid too short" came up from a ClientID option inside an
\* IANA option inside a NextHop option
C20_Witness ==
  /\ FirstFrameOf(OptionTypeNextHop)
  /\ Bytes(wire) =
       Frame(OptionTypeNextHop, 16 + 4 + 12 + 5,
             Addr \o Frame(OptionTypeIANA, 12 + 5,
                           Fill(12, 1) \o Frame(OptionTypeClientID, 1, <<0>>)))
  /\ dec.err = "duid too short"

\* C21: DecodeOptions rejects a VendorClass option whose body has fewer
\* than 4 bytes with an error, and so takes no enterprise number from bytes
\* that lie after the body.
C21_VendorClassMinimum ==
  (FirstFrameOf(OptionTypeVendorClass) /\ HeaderLen(wire) < 4) =>
    /\ ReturnedError
    /\ dec.list = <<>>


\* the strings of a length-prefixed body as the specification words them:
\* a prefix p whose p + 2 is more than the bytes that remain ends the list
RECURSIVE PrefixedStrings(_)
PrefixedStrings(b) ==
  IF Len(b) < 2 THEN <<>>
  ELSE LET p == b[1] * 256 + b[2]
       IN  IF p + 2 > Len(b) THEN <<>>
           ELSE <<SubSeq(b, 3, 2 + p)>>
                  \o PrefixedStrings(SubSeq(b, 3 + p, Len(b)))

\* the body bytes of the frame the buffer starts with, from body offset from
FrameBody(from) == SubSeq(wire.arr, 5 + from, 4 + HeaderLen(wire))

\* C22: length-prefixed string decoding (UserClass, VendorClass,
\* BootFileParameters): for every 16-bit prefix p, a prefix with p + 2 above
\* the bytes that remain stops the decoding, which keeps the strings read so
\* far and raises no error and no fault.
C22_PrefixedStringsStop ==
  (OptionsDecoded /\ OneFrame) =>
    /\ Uint16At(wire, 0) = OptionTypeUserClass =>
         /\ dec.err = "nil"
         /\ dec.list = <<[kind |-> "UserClass",
                          ClassData |-> PrefixedStrings(FrameBody(0))]>>
    /\ Uint16At(wire, 0) = OptionTypeBootFileParameters =>
         /\ dec.err = "nil"
         /\ dec.list = <<[kind |-> "BootFileParameters",
                          Parameters |-> PrefixedStrings(FrameBody(0))]>>
    /\ (Uint16At(wire, 0) = OptionTypeVendorClass /\ HeaderLen(wire) >= 4) =>
         /\ dec.err = "nil"
         /\ dec.list = <<[kind |-> "VendorClass",
                          EnterpriseNumber |-> Uint32At(wire, 4),
                          ClassData |-> PrefixedStrings(FrameBody(4))]>>

\* the sum of (4 + Len()) over the options of a list, as a plain integer
RECURSIVE PlainLenSum(_)
PlainLenSum(os) ==
  IF os = <<>> THEN 0 ELSE 4 + OptionLen(Head(os)) + PlainLenSum(Tail(os))

\* the option list held in bytes [16, 4 + L) of the IANA frame the buffer
\* starts with; no bytes, and the empty list, for L = 12
NestedOfIANA ==
  IF HeaderLen(wire) = 12 THEN [list |-> <<>>, err |-> "nil"]
  ELSE DecodeOptions(SliceOf(wire, 16, 4 + HeaderLen(wire)))

\* C23: an IANA option with body length L > 12 decodes bytes [16, 4 + L) of
\* the option as its nested option list, and with L = 12 has an empty nested
\* list; each nested option is found with HasOption on the IANA option, and
\* the Len() of the IANA option is 12 plus the sum of (4 + Len()) over its
\* nested options.
C23_NestedIANA ==
  (FirstFrameOf(OptionTypeIANA) /\ HeaderLen(wire) >= 12
     /\ NestedOfIANA.err = "nil") =>
    /\ Len(dec.list) >= 1
    /\ dec.list[1].kind = "IANA"
    /\ dec.list[1].options = NestedOfIANA.list
    /\ \A i \in 1..Len(dec.list[1].options) :
         HasOption(dec.list[1].options,
                   OptionTypeOf(dec.list[1].options[i])) # NoOption
    /\ OptionLen(dec.list[1]) = 12 + PlainLenSum(dec.list[1].options)

\* a duration of n seconds, n a 32-bit wire value
SecondsOfWire(u) ==
  DurationMul(DurationMul(DurationMul(<<0, 0, u[1], u[2]>>, Thousand),
                          Thousand), Thousand)

\* the first option DecodeOptions returned is of the kind k
FirstDecodedIs(k) ==
  OptionsDecoded /\ Len(dec.list) >= 1 /\ dec.list[1].kind = k

\* Marshal of the option sent has written the buffer
OptionMarshalled == pc = "wire" /\ layer = "options" /\ sent.kind # "none"

\* C24: T1 and T2 of IANA, and the preferred and valid lifetimes of
\* IAAddress, decode a 32-bit wire value n to a duration of n seconds, and
\* Marshal writes that duration back as the same n: wire value 300 gives
\* T1 = 300 seconds, and 300 seconds is encoded as 300.
C24_LifetimesInSeconds ==
  /\ (FirstFrameOf(OptionTypeIANA) /\ FirstDecodedIs("IANA")) =>
       /\ dec.list[1].T1 = SecondsOfWire(Uint32At(wire, 8))
       /\ dec.list[1].T2 = SecondsOfWire(Uint32At(wire, 12))
  /\ (FirstFrameOf(OptionTypeIAAddress) /\ FirstDecodedIs("IAAddress")) =>
       /\ dec.list[1].PreferredLifetime = SecondsOfWire(Uint32At(wire, 20))
       /\ dec.list[1].ValidLifetime = SecondsOfWire(Uint32At(wire, 24))
  /\ (OptionMarshalled /\ sent.kind = "IANA" /\ sent.T1 = Seconds(300)) =>
       Uint32At(wire, 8) = U32Of(300)

\* C25: Options.Len() of a list is the sum over its elements of
\* (element.Len() + 4) as a plain integer sum without wrap-around, for every
\* list, also when that sum is above 65535.
C25_OptionsLenPlainSum ==
  call.op = "Len" => call.result = PlainLenSum(call.arg)

\* C26: DecodeOptions terminates on every finite input: every iteration of
\* its loop returns or moves the cursor forward by 4 + L, at least 4 bytes,
\* and each recursive call gets a strictly shorter range; so no run of
\* DecodeOptions, alone or under DecodeMessage, goes on without end.
C26_DecodeOptionsTerminates ==
  (pc = "decoded" /\ layer \in {"options", "message"}) => dec.err # "hang"

\* what a run of DecodeOptions made of the first option header: the option,
\* no option, or the fault it ended with
FirstOf(r) ==
  IF r.err \in Faults THEN [kind |-> r.err]
  ELSE IF r.list = <<>> THEN NoOption
  ELSE r.list[1]

\* bytes that follow a frame in a buffer: none, or one complete option
Tails == { <<>>, <<0, 14, 0, 0>>, <<0, 13, 0, 5, 0, 0, 102, 111, 111>> }

\* the buffer starts with a complete frame of a type DecodeOptions has a
\* case for, which one of Tails follows
FrameAndTail ==
  /\ OptionsDecoded
  /\ wire.len >= 4
  /\ HeaderType(wire) \in ImplementedTypes
  /\ 4 + HeaderLen(wire) <= wire.len
  /\ SubSeq(wire.arr, 5 + HeaderLen(wire), wire.len) \in Tails

\* C27: the option DecodeOptions builds from a header with body length L
\* depends only on the 4 header bytes and the L body bytes: two buffers
\* that are equal on these bytes and differ only after offset 4 + L give the
\* same decoded option, for every variant and every L.
C27_OnlyHeaderAndBody ==
  FrameAndTail =>
    \A tail \in Tails :
      FirstOf(DecodeOptions(MkSlice(SubSeq(wire.arr, 1, 4 + HeaderLen(wire))
                                      \o tail)))
        = FirstOf(dec)

\* the preference that bits 3 and 4 (values 8 and 16) of a byte stand for
PreferenceBits(b) ==
  IF b % 32 >= 24 THEN RoutePreferenceLow
  ELSE IF b % 16 >= 8 THEN RoutePreferenceHigh
  ELSE RoutePreferenceMedium

\* C28: decoding a RoutePrefix looks only at bits 3 and 4 of body byte 5
\* and gives Low when both are set, High when bit 3 is set without bit 4,
\* and Medium otherwise, also for bit 4 alone; Marshal writes 24 for Low,
\* 8 for High and 0 for Medium, so decoding an encoded preference returns it
\* for each of Medium, High and Low.
C28_RoutePreference ==
  /\ (FirstFrameOf(OptionTypeRoutePrefix) /\ FirstDecodedIs("RoutePrefix")) =>
       dec.list[1].Preference = PreferenceBits(wire.arr[10])
  /\ (OptionMarshalled /\ sent.kind = "RoutePrefix") =>
       /\ sent.Preference = RoutePreferenceLow => wire.arr[10] = 24
       /\ sent.Preference = RoutePreferenceHigh => wire.arr[10] = 8
       /\ sent.Preference = RoutePreferenceMedium => wire.arr[10] = 0
  /\ (OptionRoundTripDone /\ sent.kind = "RoutePrefix") =>
       /\ FirstDecodedIs("RoutePrefix")
       /\ dec.list[1].Preference = sent.Preference

\* C28 happens: a RoutePrefix whose preference byte has bit 4 alone was
\* decoded, and its preference is Medium
C28_Witness ==
  /\ FirstFrameOf(OptionTypeRoutePrefix)
  /\ FirstDecodedIs("RoutePrefix")
  /\ wire.arr[10] = 16
  /\ dec.list[1].Preference = RoutePreferenceMedium

\* the option of the most recent SetOption call of type t, or none
RECURSIVE MostRecentSet(_, _)
MostRecentSet(calls, t) ==
  IF calls = <<>> THEN NoOption
  ELSE IF OptionTypeOf(calls[Len(calls)]) = t THEN calls[Len(calls)]
  ELSE MostRecentSet(SubSeq(calls, 1, Len(calls) - 1), t)

\* C29: starting from an empty option container and applying SetOption
\* calls only, no two options of the list ever have the same type, and
\* HasOption(t) returns the option passed to the most recent SetOption call
\* of type t, none if there was no such call.
C29_SetOptionOnly ==
  pc = "sets" =>
    /\ \A i, j \in 1..Len(held) :
         OptionTypeOf(held[i]) = OptionTypeOf(held[j]) => i = j
    /\ call.op = "HasOption" => call.result = MostRecentSet(sets, call.arg)

\* C29 happens: after SetOption of a StatusCode option, of a RapidCommit
\* option and of a second StatusCode option, HasOption(StatusCode) returned
\* the second one
C29_Witness ==
  /\ pc = "sets"
  /\ sets = <<StatusFoo, [kind |-> "RapidCommit"], StatusBar>>
  /\ held = <<StatusBar, [kind |-> "RapidCommit"]>>
  /\ call.op = "HasOption"
  /\ call.arg = OptionTypeStatusCode
  /\ call.result = StatusBar

\* the bytes left of b after its complete options, each a 4-byte header and
\* the L body bytes the header declares; -1 when at least 4 bytes are left
\* and they are a header with fewer than L bytes after it
RECURSIVE Remainder(_)
Remainder(b) ==
  IF Len(b) < 4 THEN Len(b)
  ELSE LET L == b[3] * 256 + b[4]
       IN  IF 4 + L > Len(b) THEN -1
           ELSE Remainder(SubSeq(b, 5 + L, Len(b)))

\* C30: DecodeOptions returns success only when the buffer is exactly a
\* concatenation of complete options, a 4-byte header and L body bytes each;
\* it returns "option too short" for the empty buffer and for every buffer
\* in which 1 to 3 bytes remain after the last complete option (the complete
\* options being ones that decode without error).
C30_SuccessOnlyOnWholeOptions ==
  OptionsDecoded =>
    LET b == Bytes(wire)
        r == Remainder(b)
    IN  /\ dec.err = "nil" => (Len(b) >= 4 /\ r = 0)
        /\ Len(b) = 0 => dec.err = "option too short"
        /\ (r \in 1..3 /\ Len(b) < 4) => dec.err = "option too short"
        /\ (r \in 1..3 /\ Len(b) >= 4
              /\ DecodeOptions(SliceOf(wire, 0, Len(b) - r)).err = "nil") =>
             dec.err = "option too short"

=========================================================================
